---- MODULE Spec2Model ----
(***************************************************************************)
(* Model of the Higgs EDA script: load_data (higgs_loader.py) and the      *)
(* step sequence of perform_eda (EDA_UCI_HIGGS_DATASET.py).                *)
(*                                                                         *)
(* A table is kept by what the steps read of it: its column names, the     *)
(* columns of non-numeric (object) dtype, and the label column run-length  *)
(* encoded (a block is a label value and the number of consecutive rows    *)
(* carrying it), so that tables of 0 .. 1,500,000 rows fit in a state.     *)
(***************************************************************************)
EXTENDS Integers, Sequences, FiniteSets, TLC

VARIABLES
    file,        \* the input file: does the path exist, and its data rows
    nrows,       \* the row limit argument: <<n>>, or <<>> for None
    pc,          \* position in perform_eda
    df,          \* the loaded table (NoTable before loading)
    readStarted, \* pd.read_csv has been called
    features,    \* the selected features (a list of column names)
    corr,        \* the local variable corr of perform_eda (Undefined until bound)
    sample_n,    \* the local variable sample_n: <<n>>, or <<>> while unbound
    requested,   \* per sampling step, the size passed to df.sample: <<n>>, or <<>>
    grid,        \* per grid step, the layout the step built
    label_corr,  \* content of 5_corr_with_target.csv: list of <<column, value>>
    summary,     \* content of 12_summary_overview.csv
    artifacts,   \* names of the files written under results/eda
    figs,        \* open matplotlib figures, oldest first; the last is current
    executed,    \* steps that have been entered
    log,         \* steps whose failure was caught and printed
    faults       \* library/environment failures still to be injected

vars == <<file, nrows, pc, df, readStarted, features, corr, sample_n, requested,
          grid, label_corr, summary, artifacts, figs, executed, log, faults>>

-----------------------------------------------------------------------------
(* Bounds of the model *)

\* injected library/environment failures per run (data-determined failures are free)
MaxFaults == 1
\* non-preferred columns x1 .. xk of an arbitrary table
MaxExtra == 8
\* tables with at most this many non-label columns get every correlation vector
MaxCorrCols == 3

-----------------------------------------------------------------------------
(* Program constants *)

GridCols == 3
MaxFeatures == 7
KdeFeatures == 6
SampleFloor == 2000
SampleCap == 20000
SampleDiv == 50
PairCap == 5000
ScatterCap == 15000
PairFeatures == 4
OutlierCols == 6

-----------------------------------------------------------------------------
(* Values *)

NoLimit == <<>>
Limit(n) == <<n>>
Num(n) == <<"num", n>>
NaN == <<"nan", 0>>
IsNum(v) == v[1] = "num"

Min(a, b) == IF a <= b THEN a ELSE b
Max(a, b) == IF a >= b THEN a ELSE b

Block(v, c) == [val |-> v, cnt |-> c]

RECURSIVE Rows(_)
\* len(df): number of rows of a run-length encoded column
Rows(bs) == IF bs = <<>> THEN 0 ELSE Head(bs).cnt + Rows(Tail(bs))

RECURSIVE Take(_, _)
\* the first n rows (pd.read_csv(nrows=n) reads from the start of the file)
Take(bs, n) ==
    IF n <= 0 \/ bs = <<>> THEN <<>>
    ELSE IF Head(bs).cnt <= n
         THEN <<Head(bs)>> \o Take(Tail(bs), n - Head(bs).cnt)
         ELSE <<Block(Head(bs).val, n)>>

RECURSIVE LabelSum(_)
\* df["label"].sum(): missing values are skipped
LabelSum(bs) ==
    IF bs = <<>> THEN 0
    ELSE (IF IsNum(Head(bs).val) THEN Head(bs).val[2] * Head(bs).cnt ELSE 0)
         + LabelSum(Tail(bs))

RECURSIVE LabelOnes(_)
\* mutant: negative_labels counts the rows with label == 1
LabelOnes(bs) ==
    IF bs = <<>> THEN 0
    ELSE (IF Head(bs).val = Num(1) THEN Head(bs).cnt ELSE 0) + LabelOnes(Tail(bs))

RECURSIVE LabelZeros(_)
\* (df["label"] == 0).sum()
LabelZeros(bs) ==
    IF bs = <<>> THEN 0
    ELSE (IF Head(bs).val = Num(0) THEN Head(bs).cnt ELSE 0) + LabelZeros(Tail(bs))

SeqToSet(s) == {s[i] : i \in 1..Len(s)}

RECURSIVE Filter(_, _)
\* [x for x in s if x in keep]
Filter(s, keep) ==
    IF s = <<>> THEN <<>>
    ELSE (IF Head(s) \in keep THEN <<Head(s)>> ELSE <<>>) \o Filter(Tail(s), keep)

\* s[:n]
Prefix(s, n) == SubSeq(s, 1, Min(n, Len(s)))

RECURSIVE Remove(_, _)
Remove(s, x) ==
    IF s = <<>> THEN <<>>
    ELSE (IF Head(s) = x THEN <<>> ELSE <<Head(s)>>) \o Remove(Tail(s), x)

-----------------------------------------------------------------------------
(* higgs_loader.load_data *)

low_level ==
    <<"lepton_pT", "lepton_eta", "lepton_phi",
      "missing_energy_magnitude", "missing_energy_phi",
      "jet1_pt", "jet1_eta", "jet1_phi", "jet1_b-tag",
      "jet2_pt", "jet2_eta", "jet2_phi", "jet2_b-tag",
      "jet3_pt", "jet3_eta", "jet3_phi", "jet3_b-tag",
      "jet4_pt", "jet4_eta", "jet4_phi", "jet4_b-tag">>

high_level == <<"m_jj", "m_jjj", "m_lv", "m_jlv", "m_bb", "m_wbb", "m_wwbb">>

columns == <<"label">> \o low_level \o high_level

Table(cols, objs, labels) ==
    [columns |-> cols,
     objs    |-> objs \cap SeqToSet(cols),
     labels  |-> labels]

NoTable == Table(<<>>, {}, <<>>)

\* mutant: nrows is not passed on to pd.read_csv
ReadRowsUnlimited(blocks, limit) == blocks

\* rows pd.read_csv(file_path, names=columns, nrows=nrows) returns
ReadRows(blocks, limit) == IF limit = NoLimit THEN blocks ELSE Take(blocks, limit[1])

\* pd.read_csv raises: a negative nrows is rejected, a file without data may be
\* (EmptyDataError), and any read may fail to parse
ReadMustRaise(limit) == limit # NoLimit /\ limit[1] < 0
ReadMayRaise(blocks) == blocks = <<>>

load_data(blocks, limit) == Table(columns, {}, ReadRows(blocks, limit))

-----------------------------------------------------------------------------
(* perform_eda: the pure parts *)

default_features ==
    <<"lepton_pT", "lepton_eta", "missing_energy_magnitude",
      "jet1_pt", "jet1_b-tag", "m_jj", "m_wwbb">>

\* df.select_dtypes(include=[np.number]).columns.tolist()
NumericCols(t) == Filter(t.columns, {c \in SeqToSet(t.columns) : c \notin t.objs})

NonLabel(cols) == Filter(cols, SeqToSet(cols) \ {"label"})

HasObj(t) == \E c \in SeqToSet(t.columns) : c \in t.objs

\* mutant: the fallback keeps every numeric non-label column
SelectFeaturesUncapped(t) ==
    LET present == Filter(default_features, SeqToSet(t.columns))
    IN  IF present # <<>> THEN present ELSE NonLabel(NumericCols(t))

\* the preferred names present in the table, else the first numeric non-label columns
SelectFeatures(t) ==
    LET present == Filter(default_features, SeqToSet(t.columns))
    IN  IF present # <<>> THEN present
        ELSE Prefix(NonLabel(NumericCols(t)), MaxFeatures)

\* mutant: the sample size is capped at the number of rows
SampleSizeCapped(n) == Min(n, Min(SampleCap, Max(SampleFloor, n \div SampleDiv)))

\* sample_n = min(20000, max(2000, len(df) // 50))
SampleSize(n) == Min(SampleCap, Max(SampleFloor, n \div SampleDiv))
\* pair_size = min(5000, sample_n)
PairSize(sn) == Min(PairCap, sn)
\* min(15000, sample_n)
ScatterSize(sn) == Min(ScatterCap, sn)

\* df.sample(n, random_state=42) raises when n exceeds the population
SampleRaises(n, population) == n > population

\* mutant: the row count is rounded down
GridRowsFloor(n) == n \div GridCols

\* rows = (num_feats + cols - 1) // cols
GridRows(n) == (n + GridCols - 1) \div GridCols
\* rows = (n + 2) // 3
KdeRows(n) == (n + 2) \div 3

NoGrid == [rows |-> 0, axes |-> <<>>, state |-> "none"]

\* plt.subplots(rows, 3) flattened, one plot per feature on axes[i], then
\* axes[drawn:] switched off. subplots raises for 0 rows; axes[i] raises past the end.
GridLayout(rows, drawn) ==
    LET cells == rows * GridCols
        axes  == [i \in 1..cells |->
                    IF i <= drawn THEN "plot" ELSE "off"]
    IN  IF rows <= 0 THEN [rows |-> rows, axes |-> <<>>, state |-> "norows"]
        ELSE IF drawn > cells
             THEN [rows |-> rows,
                   axes |-> [i \in 1..cells |-> "plot"],
                   state |-> "overflow"]
             ELSE [rows |-> rows, axes |-> axes, state |-> "drawn"]

\* the first plotting call of a grid step raises: the axes exist and stay blank
GridInterrupted(rows) ==
    [rows |-> rows, axes |-> [i \in 1..(rows * GridCols) |-> "blank"],
     state |-> "interrupted"]

\* save_plot(fig, path): fig.savefig and plt.close(fig); when that raises,
\* plt.savefig and plt.close() on the current figure; when that raises too,
\* a message and plt.close("all")
save_plot(open, fig, o) ==
    IF o = "fallback" THEN [figs |-> SubSeq(open, 1, Len(open) - 1), saved |-> TRUE]
    ELSE IF o = "fail" THEN [figs |-> <<>>, saved |-> FALSE]
    ELSE [figs |-> Remove(open, fig), saved |-> TRUE]

\* A try block that opens one figure, plots, calls save_plot(fig, png) and then
\* writes csvs. o is where it raises, if anywhere:
\*   "pre"  before the figure is created     "plot" between creation and save_plot
\*   "csv"  in to_csv, after save_plot       "fallback"/"fail" inside save_plot
Render(open, written, step, o, png, csvs) ==
    IF o = "pre" THEN [figs |-> open, artifacts |-> written, raised |-> TRUE]
    ELSE IF o = "plot"
    THEN [figs |-> Append(open, step), artifacts |-> written, raised |-> TRUE]
    ELSE LET sp == save_plot(Append(open, step), step, IF o = "csv" THEN "ok" ELSE o)
             img == IF sp.saved THEN {png} ELSE {}
         IN  IF o = "csv"
             THEN [figs |-> sp.figs, artifacts |-> written \cup img, raised |-> TRUE]
             ELSE [figs |-> sp.figs, artifacts |-> written \cup img \cup csvs,
                   raised |-> FALSE]

\* the except handler of a step prints one line
Caught(lg, step, raised) == IF raised THEN lg \cup {step} ELSE lg

(* correlation values: Pearson coefficients scaled to -1 .. 1, or NaN *)
CorrVals == {Num(-1), Num(0), Num(1), NaN}

Undefined == [bound |-> FALSE, columns |-> <<>>, label |-> <<>>]

IndexOf(s, x) == CHOOSE i \in 1..Len(s) : s[i] = x

\* what df.corr()["label"] can hold over the columns cols: every vector on a
\* narrow table, one vector mixing -1, 1 and NaN on a wide one
CorrResults(t, cols) ==
    IF Len(t.columns) - 1 <= MaxCorrCols
    THEN [SeqToSet(cols) -> CorrVals]
    ELSE { [c \in SeqToSet(cols) |-> IF IndexOf(cols, c) % 3 = 0 THEN NaN
                                     ELSE Num((IndexOf(cols, c) % 3) * 2 - 3)] }

\* a > b as pandas orders floats; NaN compares with nothing
Gt(a, b) == IsNum(a) /\ IsNum(b) /\ a[2] > b[2]

RECURSIVE InsertDesc(_, _)
\* insert e into a list kept in descending order, NaN last, after its equals
InsertDesc(s, e) ==
    IF s = <<>> THEN <<e>>
    ELSE IF (IsNum(e[2]) /\ ~IsNum(Head(s)[2])) \/ Gt(e[2], Head(s)[2])
         THEN <<e>> \o s
         ELSE <<Head(s)>> \o InsertDesc(Tail(s), e)

\* mutant: the series is written in column order
Unsorted(s) == s

RECURSIVE SortDesc(_)
\* Series.sort_values(ascending=False)
SortDesc(s) ==
    IF s = <<>> THEN <<>>
    ELSE InsertDesc(SortDesc(SubSeq(s, 1, Len(s) - 1)), s[Len(s)])

\* Series.drop("label", errors="ignore")
DropLabel(s) == SelectSeq(s, LAMBDA e : e[1] # "label")

\* corr["label"] as a list of <<column, value>> in column order
LabelColumn(c) == [i \in 1..Len(c.columns) |-> <<c.columns[i], c.label[c.columns[i]]>>]

\* corr["label"].drop("label", errors="ignore").sort_values(ascending=False)
CorrWithTarget(c) == SortDesc(DropLabel(LabelColumn(c)))

\* pd.DataFrame({"rows": ..., "columns": ..., "positive_labels": ..., "negative_labels": ...})
Summary(t) ==
    [rows            |-> Rows(t.labels),
     columns         |-> Len(t.columns),
     positive_labels |-> LabelSum(t.labels),
     negative_labels |-> LabelZeros(t.labels)]

NoSummary == [rows |-> -1, columns |-> -1,
              positive_labels |-> -1, negative_labels |-> -1]

-----------------------------------------------------------------------------
(* Inputs *)

\* the data rows of the input file
Files ==
    { <<>>,
      <<Block(Num(1), 1), Block(Num(0), 1)>>,
      <<Block(Num(1), 1000), Block(Num(0), 999)>>,
      <<Block(Num(0), 1000), Block(Num(1), 1000)>>,
      <<Block(Num(1), 100000), Block(Num(0), 150000)>>,
      <<Block(Num(0), 600000), Block(Num(1), 900000)>>,
      <<Block(Num(2), 1), Block(Num(0), 1)>>,
      <<Block(NaN, 1), Block(Num(1), 1)>> }

Limits == {NoLimit} \cup {Limit(n) : n \in {-1, 0, 1, 2000, 500000, 1000000}}

GridSteps == {"s2", "s6", "s7", "s11"}
SampleSteps == {"s6", "s8", "s10"}

Fresh ==
    /\ readStarted = FALSE
    /\ features = <<>>
    /\ corr = Undefined
    /\ sample_n = <<>>
    /\ requested = [s \in SampleSteps |-> <<>>]
    /\ grid = [s \in GridSteps |-> NoGrid]
    /\ label_corr = <<>>
    /\ summary = NoSummary
    /\ artifacts = {}
    /\ figs = <<>>
    /\ executed = {}
    /\ log = {}

\* the program: perform_eda(nrows), or load_data(file_path, nrows) called directly
Init ==
    /\ file \in {[exists |-> FALSE, blocks |-> <<>>]}
                \cup {[exists |-> TRUE, blocks |-> b] : b \in Files}
    /\ nrows \in Limits
    /\ pc \in {"eda", "loader"}
    /\ df = NoTable
    /\ faults = MaxFaults
    /\ Fresh

-----------------------------------------------------------------------------
(* Loading *)

\* failures that may be injected here while the budget lasts
Injected(kinds) == IF faults > 0 THEN kinds ELSE {}
Cost(o, free) == IF o \in free THEN 0 ELSE 1

\* os.path.exists(file_path) is false
FileMissing(f) == ~f.exists

\* how a call of load_data can end: "missing" before anything is read,
\* "raise" inside pd.read_csv, "ok" with the table
LoadOutcomes ==
    IF FileMissing(file) THEN {"missing"}
    ELSE IF ReadMustRaise(nrows) THEN {"raise"}
    ELSE {"ok"} \cup (IF ReadMayRaise(file.blocks) THEN {"raise"} ELSE {})
                \cup Injected({"fault"})

LoadFree == {"missing", "raise", "ok"}

\* mutant: the except handler for load_data lacks its return
ContinueAfterLoadError == "info"

\* where perform_eda goes after its except handler for load_data
AfterLoadError == "load_failed"

\* load_data called on its own
LoadData ==
    /\ pc = "loader"
    /\ \E o \in LoadOutcomes :
         /\ readStarted' = (o # "missing")
         /\ df' = IF o = "ok" THEN load_data(file.blocks, nrows) ELSE NoTable
         /\ pc' = IF o = "ok" THEN "returned" ELSE "raised"
         /\ faults' = faults - Cost(o, LoadFree)
    /\ UNCHANGED <<file, nrows, features, corr, sample_n, requested, grid,
                   label_corr, summary, artifacts, figs, executed, log>>

\* perform_eda up to the table being loaded
PerformEdaLoad ==
    /\ pc = "eda"
    /\ IF nrows = NoLimit
       THEN \* f"{nrows:,}" raises for None before the try block
            /\ pc' = "format_error"
            /\ UNCHANGED <<df, readStarted, log, faults>>
       ELSE \E o \in LoadOutcomes :
              /\ readStarted' = (o # "missing")
              /\ df' = IF o = "ok" THEN load_data(file.blocks, nrows) ELSE NoTable
              /\ pc' = IF o = "ok" THEN "info" ELSE AfterLoadError
              /\ log' = IF o = "ok" THEN log ELSE log \cup {"load"}
              /\ faults' = faults - Cost(o, LoadFree)
    /\ UNCHANGED <<file, nrows, features, corr, sample_n, requested, grid,
                   label_corr, summary, artifacts, figs, executed>>

-----------------------------------------------------------------------------
(* The report steps that run outside any try block *)

\* a statement outside try: it writes path, or its exception leaves perform_eda
Unwrapped(step, path, next) ==
    /\ pc = step
    /\ executed' = executed \cup {step}
    /\ \E o \in {"ok"} \cup Injected({"raise"}) :
         /\ artifacts' = IF o = "ok" THEN artifacts \cup {path} ELSE artifacts
         /\ pc' = IF o = "ok" THEN next ELSE "crashed"
         /\ faults' = faults - Cost(o, {"ok"})
    /\ UNCHANGED <<file, nrows, df, readStarted, features, corr, sample_n, requested,
                   grid, label_corr, summary, figs, log>>

StepInfo == Unwrapped("info", "0_info.txt", "describe")

StepDescribe == Unwrapped("describe", "1_describe.csv", "missing")

StepMissing == Unwrapped("missing", "2_missing_values.csv", "guard")

\* if "label" not in df.columns: return
GuardLabel ==
    /\ pc = "guard"
    /\ pc' = IF "label" \in SeqToSet(df.columns) THEN "select" ELSE "no_label"
    /\ UNCHANGED <<file, nrows, df, readStarted, features, corr, sample_n, requested,
                   grid, label_corr, summary, artifacts, figs, executed, log, faults>>

ChooseFeatures ==
    /\ pc = "select"
    /\ features' = SelectFeatures(df)
    /\ pc' = "s1"
    /\ UNCHANGED <<file, nrows, df, readStarted, corr, sample_n, requested,
                   grid, label_corr, summary, artifacts, figs, executed, log, faults>>

-----------------------------------------------------------------------------
(* The report steps, one try block each *)

\* what every step leaves behind: r is the Render record of its try block
Finish(step, next, r) ==
    /\ figs' = r.figs
    /\ artifacts' = r.artifacts
    /\ log' = Caught(log, step, r.raised)
    /\ executed' = executed \cup {step}
    /\ pc' = next

\* the try block did nothing that raises and drew nothing
Skipped == [figs |-> figs, artifacts |-> artifacts, raised |-> FALSE]

\* how a grid step can end, given the layout it computes: subplots raises for a
\* grid without rows (the figure may already be registered), axes[i] raises past
\* the last cell, and any plotting call may fail
GridOutcomes(L) ==
    IF L.state = "norows" THEN {"pre", "plot"}
    ELSE IF L.state = "overflow" THEN {"plot"}
    ELSE {"ok"} \cup Injected({"plot", "fallback", "fail"})

GridFree == {"ok"}

GridCost(L, o) == IF L.state = "drawn" THEN Cost(o, GridFree) ELSE 0

\* the layout a grid step leaves when it ends by o
GridLeft(L, o) ==
    IF L.state = "drawn" /\ o = "plot" THEN GridInterrupted(L.rows) ELSE L

\* 1. target distribution
Step1TargetDistribution ==
    /\ pc = "s1"
    /\ \E o \in {"ok"} \cup Injected({"plot", "fallback", "fail"}) :
         /\ Finish("s1", "s2",
                   Render(figs, artifacts, "s1", o, "1_target_distribution.png", {}))
         /\ faults' = faults - Cost(o, {"ok"})
    /\ UNCHANGED <<file, nrows, df, readStarted, features, corr, sample_n, requested,
                   grid, label_corr, summary>>

\* 2. feature histograms
Step2Histograms ==
    /\ pc = "s2"
    /\ LET num_feats == Len(features)
           L == GridLayout(GridRows(num_feats), num_feats)
       IN  \E o \in GridOutcomes(L) :
             /\ Finish("s2", "s3",
                       Render(figs, artifacts, "s2", o, "2_feature_histograms.png", {}))
             /\ grid' = [grid EXCEPT !["s2"] = GridLeft(L, o)]
             /\ faults' = faults - GridCost(L, o)
    /\ UNCHANGED <<file, nrows, df, readStarted, features, corr, sample_n, requested,
                   label_corr, summary>>

\* df.corr() / df.var() on a table with a non-numeric column raises, or leaves the
\* column out, depending on the pandas release
NumericOnlyOutcomes(t) == IF HasObj(t) THEN {"pre", "ok"} ELSE {"ok"}

\* 3. correlation matrix
Step3CorrelationMatrix ==
    /\ pc = "s3"
    /\ \E o \in NumericOnlyOutcomes(df)
                \cup Injected({"pre", "plot", "fallback", "fail", "csv"}) :
         /\ Finish("s3", "s4",
                   Render(figs, artifacts, "s3", o, "3_correlation_matrix.png",
                          {"3_correlation_matrix.csv"}))
         /\ IF o = "pre"
            THEN corr' = corr
            ELSE \E m \in CorrResults(df, NumericCols(df)) :
                   corr' = [bound |-> TRUE, columns |-> NumericCols(df), label |-> m]
         /\ faults' = faults - Cost(o, NumericOnlyOutcomes(df))
    /\ UNCHANGED <<file, nrows, df, readStarted, features, sample_n, requested,
                   grid, label_corr, summary>>

\* 4. missing value heatmap
Step4MissingHeatmap ==
    /\ pc = "s4"
    /\ \E o \in {"ok"} \cup Injected({"plot", "fallback", "fail"}) :
         /\ Finish("s4", "s5",
                   Render(figs, artifacts, "s4", o, "4_missing_value_heatmap.png", {}))
         /\ faults' = faults - Cost(o, {"ok"})
    /\ UNCHANGED <<file, nrows, df, readStarted, features, corr, sample_n, requested,
                   grid, label_corr, summary>>

\* mutant: step 5 runs whether or not step 3 bound corr
Step5Unguarded(c) == {"ok"}

\* how step 5 can end: reading the unbound name corr raises NameError; without
\* a label column in corr the block does nothing
Step5Outcomes(c) ==
    IF ~c.bound THEN {"pre"}
    ELSE IF "label" \in SeqToSet(c.columns)
         THEN {"ok"} \cup Injected({"plot", "fallback", "fail", "csv"})
         ELSE {"skip"}

Step5Free == {"pre", "ok", "skip"}

\* 5. correlation with target
Step5CorrWithTarget ==
    /\ pc = "s5"
    /\ \E o \in Step5Outcomes(corr) :
         LET r == IF o = "skip" THEN Skipped
                  ELSE Render(figs, artifacts, "s5", o, "5_corr_with_target.png",
                              {"5_corr_with_target.csv"})
         IN  /\ Finish("s5", "s6", r)
             /\ label_corr' = IF o \in {"skip", "pre", "plot", "csv"} THEN label_corr
                              ELSE CorrWithTarget(corr)
             /\ faults' = faults - Cost(o, Step5Free)
    /\ UNCHANGED <<file, nrows, df, readStarted, features, corr, sample_n, requested,
                   grid, summary>>

\* 6. KDE plots on a sample
Step6KdePlots ==
    /\ pc = "s6"
    /\ LET population == Rows(df.labels)
           sn == SampleSize(population)
           n  == Min(Len(features), KdeFeatures)
           L  == GridLayout(KdeRows(n), n)
           sampled == ~SampleRaises(sn, population)
       IN  /\ sample_n' = <<sn>>
           /\ requested' = [requested EXCEPT !["s6"] = <<sn>>]
           /\ \E o \in IF sampled THEN GridOutcomes(L) \cup Injected({"pre"})
                       ELSE {"pre"} :
                /\ Finish("s6", "s7",
                          Render(figs, artifacts, "s6", o, "6_kde_plots.png", {}))
                /\ grid' = IF sampled /\ o # "pre"
                           THEN [grid EXCEPT !["s6"] = GridLeft(L, o)]
                           ELSE grid
                /\ faults' = faults - (IF sampled /\ o = "pre" THEN 1
                                       ELSE IF sampled THEN GridCost(L, o) ELSE 0)
    /\ UNCHANGED <<file, nrows, df, readStarted, features, corr, label_corr, summary>>

\* 7. boxplots by label
Step7Boxplots ==
    /\ pc = "s7"
    /\ LET num_feats == Len(features)
           L == GridLayout(GridRows(num_feats), num_feats)
       IN  \E o \in GridOutcomes(L) :
             /\ Finish("s7", "s8",
                       Render(figs, artifacts, "s7", o, "7_boxplots_by_label.png", {}))
             /\ grid' = [grid EXCEPT !["s7"] = GridLeft(L, o)]
             /\ faults' = faults - GridCost(L, o)
    /\ UNCHANGED <<file, nrows, df, readStarted, features, corr, sample_n, requested,
                   label_corr, summary>>

\* plt.close(): the current figure is closed
ClosePlt(open) == SubSeq(open, 1, Len(open) - 1)

\* sns.pairplot(pair_df[pair_features], hue="label") finds no variable to plot
NoPairVars(t, feats) ==
    \A i \in 1..Min(PairFeatures, Len(feats)) : feats[i] \in t.objs

\* 8. pairplot on a sample
Step8Pairplot ==
    /\ pc = "s8"
    /\ IF sample_n = <<>>
       THEN \* NameError
            /\ Finish("s8", "s9", Render(figs, artifacts, "s8", "pre", "", {}))
            /\ UNCHANGED <<requested, faults>>
       ELSE LET pair_size == PairSize(sample_n[1])
                forced == SampleRaises(pair_size, Rows(df.labels))
                              \/ NoPairVars(df, features)
            IN  /\ requested' = [requested EXCEPT !["s8"] = <<pair_size>>]
                /\ \E o \in IF forced THEN {"pre"}
                            ELSE {"ok"} \cup Injected({"pre", "plot"}) :
                     /\ Finish("s8", "s9",
                          IF o = "ok"
                          THEN [figs |-> ClosePlt(Append(figs, "s8")),
                                artifacts |-> artifacts \cup {"8_pairplot_sample.png"},
                                raised |-> FALSE]
                          ELSE Render(figs, artifacts, "s8", o, "", {}))
                     /\ faults' = faults - (IF forced THEN 0 ELSE Cost(o, {"ok"}))
    /\ UNCHANGED <<file, nrows, df, readStarted, features, corr, sample_n,
                   grid, label_corr, summary>>

\* 9. feature variance
Step9FeatureVariance ==
    /\ pc = "s9"
    /\ \E o \in NumericOnlyOutcomes(df)
                \cup Injected({"pre", "plot", "fallback", "fail", "csv"}) :
         /\ Finish("s9", "s10",
                   Render(figs, artifacts, "s9", o, "9_feature_variance.png",
                          {"9_feature_variance.csv"}))
         /\ faults' = faults - Cost(o, NumericOnlyOutcomes(df))
    /\ UNCHANGED <<file, nrows, df, readStarted, features, corr, sample_n, requested,
                   grid, label_corr, summary>>

\* if "lepton_pT" in df.columns and "missing_energy_magnitude" in df.columns
ScatterColumns(t) == {"lepton_pT", "missing_energy_magnitude"} \subseteq SeqToSet(t.columns)

\* 10. scatter plot of two features on a sample
Step10Scatter ==
    /\ pc = "s10"
    /\ IF ~ScatterColumns(df)
       THEN /\ Finish("s10", "s11", Skipped)
            /\ UNCHANGED <<requested, faults>>
       ELSE IF sample_n = <<>>
       THEN \* NameError
            /\ Finish("s10", "s11", Render(figs, artifacts, "s10", "pre", "", {}))
            /\ UNCHANGED <<requested, faults>>
       ELSE LET size == ScatterSize(sample_n[1])
                forced == SampleRaises(size, Rows(df.labels))
            IN  /\ requested' = [requested EXCEPT !["s10"] = <<size>>]
                /\ \E o \in IF forced THEN {"pre"}
                            ELSE {"ok"} \cup Injected({"pre", "plot", "fallback", "fail"}) :
                     /\ Finish("s10", "s11",
                               Render(figs, artifacts, "s10", o,
                                      "10_jointplot_scatter.png", {}))
                     /\ faults' = faults - (IF forced THEN 0 ELSE Cost(o, {"ok"}))
    /\ UNCHANGED <<file, nrows, df, readStarted, features, corr, sample_n,
                   grid, label_corr, summary>>

\* 11. outlier boxplots on a fixed 2 x 3 grid
Step11Outliers ==
    /\ pc = "s11"
    /\ LET check_cols == Prefix(NonLabel(NumericCols(df)), OutlierCols)
           L == GridLayout(2, Len(check_cols))
       IN  \E o \in GridOutcomes(L) :
             /\ Finish("s11", "summary",
                       Render(figs, artifacts, "s11", o, "11_outlier_iqr.png", {}))
             /\ grid' = [grid EXCEPT !["s11"] = GridLeft(L, o)]
             /\ faults' = faults - GridCost(L, o)
    /\ UNCHANGED <<file, nrows, df, readStarted, features, corr, sample_n, requested,
                   label_corr, summary>>

\* int(df["label"].sum()) on a label column of strings raises
SummaryOutcomes(t) ==
    IF "label" \in t.objs THEN {"pre"} ELSE {"ok"} \cup Injected({"pre"})

\* the summary overview
StepSummary ==
    /\ pc = "summary"
    /\ \E o \in SummaryOutcomes(df) :
         /\ artifacts' = IF o = "ok" THEN artifacts \cup {"12_summary_overview.csv"}
                         ELSE artifacts
         /\ summary' = IF o = "ok" THEN Summary(df) ELSE summary
         /\ log' = Caught(log, "summary", o # "ok")
         /\ faults' = faults - (IF "label" \in df.objs THEN 0 ELSE Cost(o, {"ok"}))
    /\ executed' = executed \cup {"summary"}
    /\ pc' = "done"
    /\ UNCHANGED <<file, nrows, df, readStarted, features, corr, sample_n, requested,
                   grid, label_corr, figs>>

-----------------------------------------------------------------------------
(* Specifications *)

\* perform_eda from the table on
NextEda ==
    \/ StepInfo
    \/ StepDescribe
    \/ StepMissing
    \/ GuardLabel
    \/ ChooseFeatures
    \/ Step1TargetDistribution
    \/ Step2Histograms
    \/ Step3CorrelationMatrix
    \/ Step4MissingHeatmap
    \/ Step5CorrWithTarget
    \/ Step6KdePlots
    \/ Step7Boxplots
    \/ Step8Pairplot
    \/ Step9FeatureVariance
    \/ Step10Scatter
    \/ Step11Outliers
    \/ StepSummary

Next ==
    \/ LoadData
    \/ PerformEdaLoad
    \/ NextEda

\* the program on an input file
Spec == Init /\ [][Next]_vars

(* perform_eda on an arbitrary table: any set of columns and dtypes *)

Extras == [i \in 1..MaxExtra |-> <<"x1", "x2", "x3", "x4", "x5", "x6", "x7", "x8",
                                   "x9", "x10">>[i]]

DefaultChoices ==
    SUBSET {"lepton_pT", "missing_energy_magnitude", "m_jj"}
        \cup {SeqToSet(Prefix(default_features, d)) : d \in 4..Len(default_features)}

ObjChoices == {{}, {"label"}, {"lepton_pT"}, {"x1", "x2"}}

TableLabels ==
    { <<Block(Num(1), 1), Block(Num(0), 1)>>,
      <<Block(Num(0), 1200), Block(Num(1), 1300)>> }

Tables ==
    { Table((IF l THEN <<"label">> ELSE <<>>) \o Filter(default_features, d)
                \o Prefix(Extras, k),
            objs, rows) :
        l \in BOOLEAN, d \in DefaultChoices, k \in 0..MaxExtra,
        objs \in ObjChoices, rows \in TableLabels }

InitTable ==
    /\ file = [exists |-> TRUE, blocks |-> <<>>]
    /\ nrows = NoLimit
    /\ pc = "info"
    /\ df \in Tables
    /\ faults = 0
    /\ Fresh

SpecTable == InitTable /\ [][NextEda]_vars

-----------------------------------------------------------------------------
(* Vocabulary of the properties *)

UnwrappedSteps == {"info", "describe", "missing"}
TrySteps == {"s1", "s2", "s3", "s4", "s5", "s6", "s7", "s8", "s9", "s10", "s11",
             "summary"}
AllSteps == UnwrappedSteps \cup TrySteps

\* perform_eda has left its step sequence
Ended == pc \in {"done", "crashed"}

\* the feature selection has run
Selected == pc \in {"s1", "s2", "s3", "s4", "s5", "s6", "s7", "s8", "s9", "s10",
                    "s11", "summary", "done"}

Loaded == df # NoTable

CorrArtifacts == {"3_correlation_matrix.png", "3_correlation_matrix.csv"}
TargetArtifacts == {"5_corr_with_target.png", "5_corr_with_target.csv"}

SampleArtifact(s) ==
    IF s = "s6" THEN "6_kde_plots.png"
    ELSE IF s = "s8" THEN "8_pairplot_sample.png"
    ELSE "10_jointplot_scatter.png"

\* ceiling(a / b), stated without the code's arithmetic
CeilDiv(a, b) == CHOOSE r \in 0..a : r * b >= a /\ (r = 0 \/ (r - 1) * b < a)

Count(s, x) == Cardinality({i \in 1..Len(s) : s[i] = x})

RECURSIVE RowAt(_, _)
\* the label of row i (1-based) of a run-length encoded column
RowAt(bs, i) == IF i <= Head(bs).cnt THEN Head(bs).val
                ELSE RowAt(Tail(bs), i - Head(bs).cnt)

ProbeRows == {1, 2, 999, 1000, 1001, 2000, 100000, 100001, 500000, 600000, 600001,
              1000000}

-----------------------------------------------------------------------------
(* Claims about the program on an input file (Spec) *)

\* C1 (as claimed): a failure in any step of the report generator, the three
\* leading reports included, is caught, and every later step still runs: a run
\* that has entered the step sequence ends with every step executed.
C1_EveryStepIsolated == Ended => AllSteps \subseteq executed

\* C2: when the path does not exist load_data fails before reading anything, and
\* whenever loading fails perform_eda logs it and stops with no artifact written
\* and no step executed.
C2_LoadFailureStops ==
    /\ (~file.exists /\ pc \notin {"eda", "loader"}) => ~readStarted /\ ~Loaded
    /\ (~Loaded /\ pc \notin {"eda", "loader"}) =>
          /\ pc \in {"load_failed", "raised", "format_error"}
          /\ artifacts = {}
          /\ executed = {}
          /\ pc = "load_failed" => "load" \in log

C2_Witness == pc = "load_failed" /\ ~file.exists

\* C3: a table returned by load_data for a file of K data rows has 29 columns and
\* K rows when the limit is absent or at least K, and otherwise exactly the
\* first M rows of the file.
C3_RowLimit ==
    Loaded =>
        LET K == Rows(file.blocks)
            M == IF nrows = NoLimit \/ nrows[1] >= K THEN K ELSE nrows[1]
        IN  /\ Len(df.columns) = 29
            /\ Rows(df.labels) = M
            /\ \A i \in ProbeRows :
                  i <= M => RowAt(df.labels, i) = RowAt(file.blocks, i)

C3_Witness ==
    /\ Loaded
    /\ nrows # NoLimit
    /\ Rows(df.labels) = 1000000
    /\ Rows(file.blocks) = 1500000
    /\ RowAt(df.labels, 600001) = Num(1)

AllBinary(bs) == \A i \in 1..Len(bs) : bs[i].val \in {Num(0), Num(1)}

SummaryWritten == "12_summary_overview.csv" \in artifacts

\* C5 (as claimed): in the summary overview positive_labels + negative_labels
\* equals rows for every loaded table.
C5_CountsSumToRows ==
    SummaryWritten => summary.positive_labels + summary.negative_labels = summary.rows

\* C5 (amended): the counts sum to rows for every loaded table whose label
\* values are all 0 or 1; rows is the table's row count.
C5_CountsSumToRowsBinary ==
    SummaryWritten =>
        /\ summary.rows = Rows(df.labels)
        /\ AllBinary(df.labels) =>
              summary.positive_labels + summary.negative_labels = summary.rows

C5_Witness ==
    /\ SummaryWritten
    /\ AllBinary(df.labels)
    /\ summary.positive_labels > 0
    /\ summary.negative_labels > 0

\* C6 (as claimed): once a step has finished, normally or through its except
\* handler, no figure it opened is still open.
C6_FiguresReleased == \A s \in executed : s \notin SeqToSet(figs)

\* C10: sample_n is min(20000, max(2000, rows // 50)), the pairplot and scatter
\* sizes are min(5000, sample_n) and min(15000, sample_n); on a table of fewer
\* than 2000 rows each sampling step asks for more rows than there are, fails
\* inside its own try block and writes no artifact, and the other steps still run.
C10_SmallTableSampling ==
    LET n == Rows(df.labels)
        clamp == IF n \div 50 < 2000 THEN 2000
                 ELSE IF n \div 50 > 20000 THEN 20000 ELSE n \div 50
    IN  /\ sample_n # <<>> => sample_n = <<clamp>>
        /\ requested["s6"] # <<>> => requested["s6"] = <<clamp>>
        /\ requested["s8"] # <<>> =>
              requested["s8"] = <<IF clamp > 5000 THEN 5000 ELSE clamp>>
        /\ requested["s10"] # <<>> =>
              requested["s10"] = <<IF clamp > 15000 THEN 15000 ELSE clamp>>
        /\ \A s \in SampleSteps :
              (Loaded /\ n < 2000 /\ s \in executed) =>
                  /\ requested[s] # <<>>
                  /\ requested[s][1] > n
                  /\ s \in log
                  /\ SampleArtifact(s) \notin artifacts
        /\ (Loaded /\ n < 2000 /\ pc = "done") => TrySteps \subseteq executed

C10_Witness ==
    /\ pc = "done"
    /\ Rows(df.labels) = 1999
    /\ SampleSteps \subseteq log
    /\ {"7_boxplots_by_label.png", "9_feature_variance.csv", "11_outlier_iqr.png",
        "12_summary_overview.csv"} \subseteq artifacts

\* C9 (as claimed): the correlation-with-target artifacts are written only if the
\* correlation-matrix step wrote its artifacts earlier in the run.
C9_TargetNeedsMatrixArtifacts ==
    (TargetArtifacts \cap artifacts # {}) => CorrArtifacts \subseteq artifacts

\* C9 (amended): the correlation-with-target artifacts are written only if step 3
\* bound corr (df.corr() returned) earlier in the run, whether or not step 3 wrote
\* its own artifacts; the pairplot and scatter artifacts are written only with
\* sample_n bound by the KDE step, which sets their sample sizes.
C9_TargetNeedsCorrBound ==
    /\ (TargetArtifacts \cap artifacts # {}) =>
          /\ corr.bound
          /\ "s3" \in executed
          /\ "label" \in SeqToSet(corr.columns)
    /\ "8_pairplot_sample.png" \in artifacts =>
          /\ sample_n # <<>>
          /\ "s6" \in executed
          /\ requested["s8"] = <<IF sample_n[1] > 5000 THEN 5000 ELSE sample_n[1]>>
    /\ "10_jointplot_scatter.png" \in artifacts =>
          /\ sample_n # <<>>
          /\ "s6" \in executed
          /\ requested["s10"] = <<IF sample_n[1] > 15000 THEN 15000 ELSE sample_n[1]>>

C9_Witness ==
    /\ "5_corr_with_target.csv" \in artifacts
    /\ CorrArtifacts \cap artifacts = {}
    /\ "8_pairplot_sample.png" \in artifacts

-----------------------------------------------------------------------------
(* Claims about perform_eda on an arbitrary table (SpecTable) *)

Preferred(t) == SeqToSet(t.columns) \cap SeqToSet(default_features)

NumericNonLabel(t) == {c \in SeqToSet(t.columns) : c # "label" /\ c \notin t.objs}

\* C4 (as claimed): for any table the selected feature list is non-empty, does
\* not contain label and has at most 7 entries.
C4_SelectionNonEmpty ==
    Selected =>
        /\ features # <<>>
        /\ "label" \notin SeqToSet(features)
        /\ Len(features) <= 7

\* C4 (amended): the list never contains label and has at most 7 entries: the
\* preferred names present, or, if none is, the first 7 numeric non-label columns;
\* it is empty exactly when the table has neither.
C4_Selection ==
    Selected =>
        LET chosen == SeqToSet(features)
        IN  /\ "label" \notin chosen
            /\ Len(features) <= 7
            /\ Cardinality(chosen) = Len(features)
            /\ Preferred(df) # {} => chosen = Preferred(df)
            /\ Preferred(df) = {} =>
                  /\ chosen \subseteq NumericNonLabel(df)
                  /\ Len(features) = Min(7, Cardinality(NumericNonLabel(df)))
                  /\ \A c \in chosen : \A d \in NumericNonLabel(df) \ chosen :
                        IndexOf(df.columns, c) < IndexOf(df.columns, d)
            /\ features = <<>> <=> (Preferred(df) = {} /\ NumericNonLabel(df) = {})

C4_Witness ==
    /\ Selected
    /\ Preferred(df) = {}
    /\ Cardinality(NumericNonLabel(df)) = 8
    /\ Len(features) = 7

\* the number of features a grid step draws
Drawn(s) == IF s = "s6" THEN Min(Len(features), 6) ELSE Len(features)

Exceeds(a, b) == a[1] = "num" /\ b[1] = "num" /\ a[2] > b[2]

\* C8: 5_corr_with_target.csv holds one entry per column of the correlation
\* matrix other than label, none for label, each with that column's correlation,
\* and no entry is followed by a greater one.
C8_CorrWithTargetSorted ==
    "5_corr_with_target.csv" \in artifacts =>
        LET others == SeqToSet(corr.columns) \ {"label"}
        IN  /\ {label_corr[i][1] : i \in 1..Len(label_corr)} = others
            /\ Len(label_corr) = Cardinality(others)
            /\ \A i \in 1..Len(label_corr) :
                  /\ label_corr[i][1] # "label"
                  /\ label_corr[i][2] = corr.label[label_corr[i][1]]
            /\ \A i, j \in 1..Len(label_corr) :
                  i < j => ~Exceeds(label_corr[j][2], label_corr[i][2])

C8_Witness ==
    /\ "5_corr_with_target.csv" \in artifacts
    /\ Len(label_corr) = 3
    /\ label_corr[1][2] = Num(1)
    /\ label_corr[2][2] = Num(-1)
    /\ label_corr[3][2] = NaN
    /\ label_corr[1][1] = corr.columns[Len(corr.columns)]

====
